---- MODULE Spec2Model ----
(***************************************************************************)
(* winrandom: Python interface to the Windows CryptoAPI CryptGenRandom().  *)
(* Model of src/src/winrandom.c: winrandom_range, winrandom_bytes and      *)
(* winrandom_long, each as a sequence of steps (one per statement that     *)
(* talks to Python, the C runtime or the CryptoAPI), with the CryptoAPI    *)
(* and malloc as nondeterministic collaborators.                           *)
(*                                                                         *)
(* The build target is Windows (LLP64): long and unsigned long are 32 bits.*)
(***************************************************************************)
EXTENDS Integers, Sequences, FiniteSets, TLC

\* ---------------------------------------------------------------- bounds
\* number of calls of the module's functions in one behaviour
MaxCalls == 2
\* number of candidates one range() call may draw
MaxDraws == 2
\* largest N passed to bytes(N)
MaxBytes == 2
\* largest MAX for which the counting form of uniformity is enumerated
UniformMax == 257

\* ------------------------------------------------------- program constants
\* width in bits of long / unsigned long
LongBits == 32
\* a BYTE holds 0 .. ByteRange-1
ByteRange == 256
\* a 16-bit half of an unsigned long holds 0 .. HalfRange-1
HalfRange == 65536
\* the byte values the simulated CryptGenRandom delivers
ByteVals == {0, 255}
\* the arguments callers pass to range(MAX); all fit a C long
RangeArgs == {-5, 0, 1, 2, 3, 200, 255, 257, 40000}
\* the arguments callers pass to bytes(N); all fit an unsigned int
BytesArgs == 0 .. MaxBytes

RECURSIVE Pow2(_)
Pow2(k) == IF k = 0 THEN 1 ELSE 2 * Pow2(k - 1)

\* sizeof(unsigned long)
SizeofLong == LongBits \div 8

\* An unsigned long is modelled by its two 16-bit halves <<hi, lo>>, standing
\* for hi * 65536 + lo; every operation below is the C operation on that value.

\* the long that PyArg_ParseTuple("l") stores, read back through unsigned long
\* (two's complement: a negative long reads as 2^32 + x)
AsUnsignedLong(x) == <<(x \div HalfRange) % HalfRange, x % HalfRange>>

\* a < b on unsigned long
ULess(a, b) == a[1] < b[1] \/ (a[1] = b[1] /\ a[2] < b[2])

\* a <= b on unsigned long
ULessEq(a, b) == a = b \/ ULess(a, b)

\* a - 1 on unsigned long
UPred(a) ==
    IF a[2] > 0 THEN <<a[1], a[2] - 1>> ELSE <<(a[1] - 1) % HalfRange, HalfRange - 1>>

\* the least k with 2^k >= n, for an int n >= 1
RECURSIVE CeilLog2From(_, _)
CeilLog2From(n, k) == IF Pow2(k) >= n THEN k ELSE CeilLog2From(n, k + 1)

\* ceil(log(a) / log(2)) for an unsigned long a >= 1
CeilLog2(a) ==
    IF a[1] = 0 THEN CeilLog2From(a[2], 0)
    ELSE IF a[2] = 0 THEN 16 + CeilLog2From(a[1], 0)
    ELSE 16 + CeilLog2From(a[1] + 1, 0)

\* variant: upperLimitBits / 8 + 1
Div8PlusOne(b) == (b \div 8) + 1

\* ceil(upperLimitBits / 8)
CeilDiv8(b) == (b + 7) \div 8

\* byte i of a buffer, bytes past its end being the zero bytes of c = 0L
ByteAt(bytes, i) == IF i <= Len(bytes) THEN bytes[i] ELSE 0

\* the unsigned long whose first Len(bytes) bytes (lowest address first, x86
\* byte order) are bytes and whose remaining bytes are zero
BytesToULong(bytes) ==
    <<ByteAt(bytes, 3) + ByteRange * ByteAt(bytes, 4),
      ByteAt(bytes, 1) + ByteRange * ByteAt(bytes, 2)>>

\* what CryptGenRandom may write into a buffer of n bytes
RandomBytes(n) == [1 .. n -> ByteVals]

\* ------------------------------------------------------------- outcomes
NoResult == [kind |-> "none", exc |-> "", msg |-> "", num |-> <<0, 0>>, data |-> <<>>]

PyError(e, m) == [kind |-> "error", exc |-> e, msg |-> m, num |-> <<0, 0>>, data |-> <<>>]

\* Py_BuildValue("k", x)
PyLong(x) == [kind |-> "int", exc |-> "", msg |-> "", num |-> x, data |-> <<>>]

\* variant: n - 1 bytes of the buffer
PyBytesShort(buf, n) ==
    [kind |-> "bytes", exc |-> "", msg |-> "", num |-> <<0, 0>>, data |-> SubSeq(buf, 1, n - 1)]

\* Py_BuildValue("y#", buf, n)
PyBytes(buf, n) ==
    [kind |-> "bytes", exc |-> "", msg |-> "", num |-> <<0, 0>>, data |-> SubSeq(buf, 1, n)]

\* st->error, created in PyInit_winrandom
ModuleError == "winrandom.WinRandomException"

error_out(message) == PyError(ModuleError, message)

MemoryIssue == PyError("MemoryError", "Memory issue")

InvalidArgument ==
    error_out("rand_max needs to be >1 because for 1 the upperLimitBits will be 0 and no random number  will be returned; the logic of this function is that 0 <= n <= rand_max-1)")

SourceUnavailable == error_out("Unable to acquire Windows random number generator")

GenerationFailed == error_out("Unable to fetch random data from Windows")

\* variant: the self-test reports the message of a failed fetch
EntropyTestFailedAsFetch == error_out("Unable to fetch random data from Windows")

EntropyTestFailed == error_out("Continuous random number generator test failed")

\* ---------------------------------------------------------------- state
VARIABLES
    pc,                 \* position of the (single) Python thread
    op,                 \* the function called last: "none", "range", "bytes", "long"
    arg,                \* the argument the caller passed
    result,             \* what the last call returned or raised
    r,                  \* winrandom_range: upper limit
    hProv,              \* the provider the current call holds
    upperLimitBits,     \* winrandom_range
    t,                  \* winrandom_range: how many bytes
    c,                  \* winrandom_range: output random number
    retVal,             \* result of the last CryptGenRandom of the call
    iContinousRndTest,  \* static in winrandom_range
    num_bytes,          \* winrandom_bytes
    s,                  \* winrandom_bytes: malloc'ed buffer
    pbRandomData,       \* winrandom_long
    acquired,           \* CryptAcquireContext calls that succeeded
    released,           \* CryptReleaseContext calls
    log,                \* CryptoAPI calls of the current call, in order
    prevCand,           \* candidate the source delivered before lastCand
    lastCand,           \* candidate the source delivered last to range
    ncalls,             \* calls started
    ndraws              \* candidates drawn by the current range call

vars == <<pc, op, arg, result, r, hProv, upperLimitBits, t, c, retVal,
          iContinousRndTest, num_bytes, s, pbRandomData, acquired, released,
          log, prevCand, lastCand, ncalls, ndraws>>

\* no candidate delivered yet
NoCand == <<-1, -1>>

\* content of memory that was never written
Uninit == -1

\* an unsigned long that was never written
UninitLong == <<Uninit, Uninit>>

Init ==
    /\ pc = "idle"
    /\ op = "none"
    /\ arg = 0
    /\ result = NoResult
    /\ r = <<0, 0>>
    /\ hProv = "none"
    /\ upperLimitBits = 0
    /\ t = 0
    /\ c = <<0, 0>>
    /\ retVal = 0
    /\ iContinousRndTest = <<0, 0>>
    /\ num_bytes = 0
    /\ s = <<>>
    /\ pbRandomData = UninitLong
    /\ acquired = 0
    /\ released = 0
    /\ log = <<>>
    /\ prevCand = NoCand
    /\ lastCand = NoCand
    /\ ncalls = 0
    /\ ndraws = 0

rangeLocals == <<r, upperLimitBits, t, c>>

bytesLocals == <<num_bytes, s>>

ghosts == <<prevCand, lastCand>>

counters == <<acquired, released>>

\* a call starts: the locals of the previous call are gone, the log is empty
Enter(name, a) ==
    /\ pc = "idle"
    /\ ncalls < MaxCalls
    /\ ncalls' = ncalls + 1
    /\ op' = name
    /\ arg' = a
    /\ result' = NoResult
    /\ hProv' = "none"
    /\ retVal' = 0
    /\ upperLimitBits' = 0
    /\ t' = 0
    /\ c' = <<0, 0>>
    /\ s' = <<>>
    /\ pbRandomData' = UninitLong
    /\ log' = <<>>
    /\ ndraws' = 0

\* a call returns res
Leave(res) ==
    /\ pc' = "idle"
    /\ result' = res

\* variant: the general-purpose provider tried first
PreferredProviderFull == "PROV_RSA_FULL"

\* the stronger crypto provider, tried first
PreferredProvider == "PROV_RSA_AES"

\* the provider tried when the stronger one cannot be acquired
FallbackProvider == "PROV_RSA_FULL"

\* CryptAcquireContext(&hProv, NULL, NULL, prov, CRYPT_VERIFYCONTEXT)
CryptAcquireContext(prov, ok) ==
    /\ log' = Append(log, <<"acquire", prov, ok, <<>>>>)
    /\ hProv' = IF ok THEN prov ELSE hProv
    /\ acquired' = IF ok THEN acquired + 1 ELSE acquired

\* CryptReleaseContext(hProv, 0)
CryptReleaseContext ==
    /\ log' = Append(log, <<"release", hProv, TRUE, <<>>>>)
    /\ hProv' = "none"
    /\ released' = released + 1

\* the log entry of CryptGenRandom(hProv, Len(buf), buf): the provider used,
\* whether it succeeded and the bytes it delivered
GenEntry(ok, buf) == <<"gen", hProv, ok, buf>>

\* variant: the test ignores the width
SelfTestTripsAnyWidth(bits, cand, prev) == cand = prev

\* variant: the test skips one width (bits > 16)
SelfTestTripsAbove16(bits, cand, prev) == bits > 16 /\ cand = prev

\* variant: c > r accepted
AcceptsInverted(cand, lim) == ULess(lim, cand)

\* variant: c <= r accepted
AcceptsOrEqual(cand, lim) == ULessEq(cand, lim)

\* r <= 1: the upper limit leaves no number to return
InvalidRange(lim) == ULessEq(lim, <<0, 1>>)

\* the continuous random number generator test fails
SelfTestTrips(bits, cand, prev) == bits > 15 /\ cand = prev

\* c < r: found
Accepts(cand, lim) == ULess(cand, lim)

\* ------------------------------------------------------ winrandom_range
RangeParse ==
    \E max \in RangeArgs :
        /\ Enter("range", max)
        /\ r' = AsUnsignedLong(max)
        /\ num_bytes' = 0
        /\ pc' = "range_check"
        /\ UNCHANGED <<iContinousRndTest, counters, ghosts>>

RangeCheck ==
    /\ pc = "range_check"
    /\ IF InvalidRange(r) THEN Leave(InvalidArgument)
                 ELSE pc' = "range_acquire_aes" /\ UNCHANGED result
    /\ UNCHANGED <<op, arg, rangeLocals, hProv, retVal, iContinousRndTest, bytesLocals,
                   pbRandomData, counters, log, ghosts, ncalls, ndraws>>

RangeAcquireAES ==
    /\ pc = "range_acquire_aes"
    /\ \E ok \in BOOLEAN :
        /\ CryptAcquireContext(PreferredProvider, ok)
        /\ pc' = IF ok THEN "range_bits" ELSE "range_acquire_full"
    /\ UNCHANGED <<op, arg, result, rangeLocals, retVal, iContinousRndTest, bytesLocals,
                   pbRandomData, released, ghosts, ncalls, ndraws>>

RangeAcquireFull ==
    /\ pc = "range_acquire_full"
    /\ \E ok \in BOOLEAN :
        /\ CryptAcquireContext(FallbackProvider, ok)
        /\ IF ok THEN pc' = "range_bits" /\ UNCHANGED result
                 ELSE Leave(SourceUnavailable)
    /\ UNCHANGED <<op, arg, rangeLocals, retVal, iContinousRndTest, bytesLocals,
                   pbRandomData, released, ghosts, ncalls, ndraws>>

RangeBits ==
    /\ pc = "range_bits"
    /\ upperLimitBits' = CeilLog2(UPred(r))
    /\ t' = CeilDiv8(upperLimitBits')
    /\ pc' = "range_fetch"
    /\ UNCHANGED <<op, arg, result, r, c, hProv, retVal, iContinousRndTest, bytesLocals,
                   pbRandomData, counters, log, ghosts, ncalls, ndraws>>

RangeFetch ==
    /\ pc = "range_fetch"
    /\ ndraws < MaxDraws
    /\ \/ \E buf \in RandomBytes(t) :
            /\ log' = Append(log, GenEntry(TRUE, buf))
            /\ retVal' = 1
            /\ c' = BytesToULong(buf)
            /\ prevCand' = lastCand
            /\ lastCand' = c'
            /\ ndraws' = ndraws + 1
       \/ /\ log' = Append(log, GenEntry(FALSE, <<>>))
          /\ retVal' = 0
          /\ c' = <<0, 0>>
          /\ UNCHANGED <<ghosts, ndraws>>
    /\ pc' = "range_retval"
    /\ UNCHANGED <<op, arg, result, r, upperLimitBits, t, hProv, iContinousRndTest,
                   bytesLocals, pbRandomData, counters, ncalls>>

RangeRetVal ==
    /\ pc = "range_retval"
    /\ IF retVal = 0 THEN Leave(GenerationFailed)
                     ELSE pc' = "range_test" /\ UNCHANGED result
    /\ UNCHANGED <<op, arg, rangeLocals, hProv, retVal, iContinousRndTest, bytesLocals,
                   pbRandomData, counters, log, ghosts, ncalls, ndraws>>

RangeTest ==
    /\ pc = "range_test"
    /\ pc' = IF SelfTestTrips(upperLimitBits, c, iContinousRndTest)
               THEN "range_tripped" ELSE "range_store"
    /\ UNCHANGED <<op, arg, result, rangeLocals, hProv, retVal, iContinousRndTest,
                   bytesLocals, pbRandomData, counters, log, ghosts, ncalls, ndraws>>

\* variant: a tripped self-test draws again
RangeTrippedRetry ==
    /\ pc = "range_tripped"
    /\ pc' = "range_fetch"
    /\ UNCHANGED <<op, arg, result, rangeLocals, hProv, retVal, iContinousRndTest,
                   bytesLocals, pbRandomData, counters, log, ghosts, ncalls, ndraws>>

RangeTripped ==
    /\ pc = "range_tripped"
    /\ Leave(EntropyTestFailed)
    /\ UNCHANGED <<op, arg, rangeLocals, hProv, retVal, iContinousRndTest, bytesLocals,
                   pbRandomData, counters, log, ghosts, ncalls, ndraws>>

\* variant: only a candidate that will be returned is preserved
RangeStoreAccepted ==
    /\ pc = "range_store"
    /\ iContinousRndTest' = IF Accepts(c, r) THEN c ELSE iContinousRndTest
    /\ pc' = "range_compare"
    /\ UNCHANGED <<op, arg, result, rangeLocals, hProv, retVal, bytesLocals,
                   pbRandomData, counters, log, ghosts, ncalls, ndraws>>

RangeStore ==
    /\ pc = "range_store"
    /\ iContinousRndTest' = c
    /\ pc' = "range_compare"
    /\ UNCHANGED <<op, arg, result, rangeLocals, hProv, retVal, bytesLocals,
                   pbRandomData, counters, log, ghosts, ncalls, ndraws>>

\* variant: a rejected candidate acquires the provider again
RangeCompareReacquire ==
    /\ pc = "range_compare"
    /\ pc' = IF Accepts(c, r) THEN "range_release" ELSE "range_acquire_aes"
    /\ UNCHANGED <<op, arg, result, rangeLocals, hProv, retVal, iContinousRndTest,
                   bytesLocals, pbRandomData, counters, log, ghosts, ncalls, ndraws>>

RangeCompare ==
    /\ pc = "range_compare"
    /\ pc' = IF Accepts(c, r) THEN "range_release" ELSE "range_fetch"
    /\ UNCHANGED <<op, arg, result, rangeLocals, hProv, retVal, iContinousRndTest,
                   bytesLocals, pbRandomData, counters, log, ghosts, ncalls, ndraws>>

RangeReturn ==
    /\ pc = "range_release"
    /\ CryptReleaseContext
    /\ Leave(PyLong(c))
    /\ UNCHANGED <<op, arg, rangeLocals, retVal, iContinousRndTest, bytesLocals,
                   pbRandomData, acquired, ghosts, ncalls, ndraws>>

\* ------------------------------------------------------ winrandom_bytes
BytesParse ==
    \E n \in BytesArgs :
        /\ Enter("bytes", n)
        /\ num_bytes' = n
        /\ r' = <<0, 0>>
        /\ pc' = "bytes_malloc"
        /\ UNCHANGED <<iContinousRndTest, counters, ghosts>>

\* variant: the provider is acquired before the buffer is checked
BytesMallocAfterAcquire ==
    /\ pc = "bytes_malloc"
    /\ \E ok \in BOOLEAN :
        IF ok THEN /\ s' = [i \in 1 .. num_bytes |-> Uninit]
                   /\ pc' = "bytes_acquire_aes"
                   /\ UNCHANGED <<result, hProv, counters, log>>
              ELSE /\ CryptAcquireContext(PreferredProvider, TRUE)
                   /\ Leave(MemoryIssue)
                   /\ UNCHANGED <<s, released>>
    /\ UNCHANGED <<op, arg, rangeLocals, retVal, iContinousRndTest, num_bytes,
                   pbRandomData, ghosts, ncalls, ndraws>>

BytesMalloc ==
    /\ pc = "bytes_malloc"
    /\ \E ok \in BOOLEAN :
        IF ok THEN /\ s' = [i \in 1 .. num_bytes |-> Uninit]
                   /\ pc' = "bytes_acquire_aes"
                   /\ UNCHANGED result
              ELSE /\ Leave(MemoryIssue)
                   /\ UNCHANGED s
    /\ UNCHANGED <<op, arg, rangeLocals, hProv, retVal, iContinousRndTest, num_bytes,
                   pbRandomData, counters, log, ghosts, ncalls, ndraws>>

BytesAcquireAES ==
    /\ pc = "bytes_acquire_aes"
    /\ \E ok \in BOOLEAN :
        /\ CryptAcquireContext(PreferredProvider, ok)
        /\ pc' = IF ok THEN "bytes_fetch" ELSE "bytes_acquire_full"
    /\ UNCHANGED <<op, arg, result, rangeLocals, retVal, iContinousRndTest, bytesLocals,
                   pbRandomData, released, ghosts, ncalls, ndraws>>

BytesAcquireFull ==
    /\ pc = "bytes_acquire_full"
    /\ \E ok \in BOOLEAN :
        /\ CryptAcquireContext(FallbackProvider, ok)
        /\ IF ok THEN pc' = "bytes_fetch" /\ UNCHANGED result
                 ELSE Leave(SourceUnavailable)
    /\ UNCHANGED <<op, arg, rangeLocals, retVal, iContinousRndTest, bytesLocals,
                   pbRandomData, released, ghosts, ncalls, ndraws>>

BytesFetch ==
    /\ pc = "bytes_fetch"
    /\ \/ \E buf \in RandomBytes(num_bytes) :
            /\ log' = Append(log, GenEntry(TRUE, buf))
            /\ retVal' = 1
            /\ s' = buf
       \/ /\ log' = Append(log, GenEntry(FALSE, <<>>))
          /\ retVal' = 0
          /\ UNCHANGED s
    /\ pc' = "bytes_retval"
    /\ UNCHANGED <<op, arg, result, rangeLocals, hProv, iContinousRndTest, num_bytes,
                   pbRandomData, counters, ghosts, ncalls, ndraws>>

BytesReturn ==
    /\ pc = "bytes_retval"
    /\ Leave(IF retVal = 0 THEN GenerationFailed ELSE PyBytes(s, num_bytes))
    /\ UNCHANGED <<op, arg, rangeLocals, hProv, retVal, iContinousRndTest, bytesLocals,
                   pbRandomData, counters, log, ghosts, ncalls, ndraws>>

\* ------------------------------------------------------- winrandom_long
LongEnter ==
    /\ Enter("long", 0)
    /\ r' = <<0, 0>>
    /\ num_bytes' = 0
    /\ pc' = "long_acquire_aes"
    /\ UNCHANGED <<iContinousRndTest, counters, ghosts>>

LongAcquireAES ==
    /\ pc = "long_acquire_aes"
    /\ \E ok \in BOOLEAN :
        /\ CryptAcquireContext(PreferredProvider, ok)
        /\ pc' = IF ok THEN "long_fetch" ELSE "long_acquire_full"
    /\ UNCHANGED <<op, arg, result, rangeLocals, retVal, iContinousRndTest, bytesLocals,
                   pbRandomData, released, ghosts, ncalls, ndraws>>

LongAcquireFull ==
    /\ pc = "long_acquire_full"
    /\ \E ok \in BOOLEAN :
        /\ CryptAcquireContext(FallbackProvider, ok)
        /\ IF ok THEN pc' = "long_fetch" /\ UNCHANGED result
                 ELSE Leave(SourceUnavailable)
    /\ UNCHANGED <<op, arg, rangeLocals, retVal, iContinousRndTest, bytesLocals,
                   pbRandomData, released, ghosts, ncalls, ndraws>>

LongFetch ==
    /\ pc = "long_fetch"
    /\ \/ \E buf \in RandomBytes(SizeofLong) :
            /\ log' = Append(log, GenEntry(TRUE, buf))
            /\ retVal' = 1
            /\ pbRandomData' = BytesToULong(buf)
       \/ /\ log' = Append(log, GenEntry(FALSE, <<>>))
          /\ retVal' = 0
          /\ UNCHANGED pbRandomData
    /\ pc' = "long_retval"
    /\ UNCHANGED <<op, arg, result, rangeLocals, hProv, iContinousRndTest, bytesLocals,
                   counters, ghosts, ncalls, ndraws>>

LongReturn ==
    /\ pc = "long_retval"
    /\ Leave(IF retVal = 0 THEN GenerationFailed ELSE PyLong(pbRandomData))
    /\ UNCHANGED <<op, arg, rangeLocals, hProv, retVal, iContinousRndTest, bytesLocals,
                   pbRandomData, counters, log, ghosts, ncalls, ndraws>>

Next ==
    \/ RangeParse
    \/ RangeCheck
    \/ RangeAcquireAES
    \/ RangeAcquireFull
    \/ RangeBits
    \/ RangeFetch
    \/ RangeRetVal
    \/ RangeTest
    \/ RangeTripped
    \/ RangeStore
    \/ RangeCompare
    \/ RangeReturn
    \/ BytesParse
    \/ BytesMalloc
    \/ BytesAcquireAES
    \/ BytesAcquireFull
    \/ BytesFetch
    \/ BytesReturn
    \/ LongEnter
    \/ LongAcquireAES
    \/ LongAcquireFull
    \/ LongFetch
    \/ LongReturn

Spec == Init /\ [][Next]_vars

\* ------------------------------------------- the rejection loop, unbounded
\* the log after one more CryptGenRandom: past MaxDraws draws it keeps the
\* first MaxDraws - 1 fetches and the latest one
LogFetch(entry) ==
    IF ndraws < MaxDraws THEN Append(log, entry)
                         ELSE Append(SubSeq(log, 1, Len(log) - 1), entry)

\* the fetch of winrandom_range with no limit on the number of draws (ndraws
\* stops counting at MaxDraws)
RangeFetchLoop ==
    /\ pc = "range_fetch"
    /\ \/ \E buf \in RandomBytes(t) :
            /\ log' = LogFetch(GenEntry(TRUE, buf))
            /\ retVal' = 1
            /\ c' = BytesToULong(buf)
            /\ prevCand' = lastCand
            /\ lastCand' = c'
            /\ ndraws' = IF ndraws < MaxDraws THEN ndraws + 1 ELSE ndraws
       \/ /\ log' = LogFetch(GenEntry(FALSE, <<>>))
          /\ retVal' = 0
          /\ c' = <<0, 0>>
          /\ UNCHANGED <<ghosts, ndraws>>
    /\ pc' = "range_retval"
    /\ UNCHANGED <<op, arg, result, r, upperLimitBits, t, hProv, iContinousRndTest,
                   bytesLocals, pbRandomData, counters, ncalls>>

\* the source delivers a candidate below the upper limit
RangeFetchBelowLimit ==
    /\ RangeFetchLoop
    /\ retVal' = 1
    /\ ULess(c', r)

NextLoop ==
    \/ RangeParse
    \/ RangeCheck
    \/ RangeAcquireAES
    \/ RangeAcquireFull
    \/ RangeBits
    \/ RangeFetchLoop
    \/ RangeRetVal
    \/ RangeTest
    \/ RangeTripped
    \/ RangeStore
    \/ RangeCompare
    \/ RangeReturn
    \/ BytesParse
    \/ BytesMalloc
    \/ BytesAcquireAES
    \/ BytesAcquireFull
    \/ BytesFetch
    \/ BytesReturn
    \/ LongEnter
    \/ LongAcquireAES
    \/ LongAcquireFull
    \/ LongFetch
    \/ LongReturn

\* the calls are synchronous: a call that has started keeps running, and the
\* source does not deliver candidates >= the upper limit forever
FairSpec ==
    /\ Init
    /\ [][NextLoop]_vars
    /\ WF_vars(NextLoop)
    /\ SF_vars(RangeFetchBelowLimit)

\* ================================================================ claims
\* the int an unsigned long below 2^31 stands for
ValueOf(u) == u[1] * HalfRange + u[2]

\* the current range call was given a valid upper limit
ValidRangeCall == op = "range" /\ arg > 1

\* the last call was range and has returned or raised
RangeDone == pc = "idle" /\ op = "range"

\* the source has just delivered, to a range call of width >= 16 bits, a
\* candidate identical to the candidate delivered before it
RepeatDelivered ==
    /\ op = "range"
    /\ retVal = 1
    /\ upperLimitBits >= 16
    /\ prevCand # NoCand
    /\ lastCand = prevCand

\* C1: for every max > 1 and whatever bytes the source delivers, a value that
\* range(max) returns satisfies 0 <= value < max, and the rejection loop is
\* never left with a candidate >= max.
C1_RangeWithinBounds ==
    /\ (ValidRangeCall /\ pc = "range_release") =>
          (c[1] < HalfRange \div 2 /\ ValueOf(c) < arg)
    /\ (ValidRangeCall /\ pc = "idle" /\ result.kind = "int") =>
          /\ result.num[1] < HalfRange \div 2
          /\ 0 <= ValueOf(result.num)
          /\ ValueOf(result.num) < arg

\* range(255) returned after the source first delivered the rejected byte 255
C1_Witness ==
    /\ RangeDone
    /\ arg = 255
    /\ result.kind = "int"
    /\ ndraws = 2
    /\ prevCand = <<0, 255>>

\* C2: range(max) with max <= 1 (-5, 0, 1) always fails with InvalidArgument
\* and returns no value.
C2_InvalidArgumentForMaxAtMostOne ==
    (op = "range" /\ arg <= 1) =>
        /\ pc \in {"range_check", "idle"}
        /\ pc = "idle" => result = InvalidArgument

\* C3: after any sequence of calls, every handle that was acquired has been
\* released: the number of releases equals the number of successful acquires.
C3_EveryHandleReleased ==
    pc = "idle" => released = acquired

\* C4: when bits_needed >= 16 and the source delivers a candidate identical to
\* the candidate delivered just before it (in this call or the previous range
\* call), range fails with EntropyTestFailed on that occurrence and returns no
\* value.
C4_RepeatTripsSelfTest ==
    RepeatDelivered =>
        \/ pc \in {"range_retval", "range_test", "range_tripped"}
        \/ pc = "idle" /\ result = EntropyTestFailed

\* range(40000) failed on its first candidate, a non-zero value that the
\* previous range call had drawn last
C4_Witness ==
    /\ RangeDone
    /\ RepeatDelivered
    /\ ndraws = 1
    /\ lastCand = <<0, 255>>
    /\ result = EntropyTestFailed

\* C5: range fails the self-test only when the candidate just delivered equals
\* the candidate delivered before it; the first candidate after process start
\* cannot trip the test.
C5_NoFalseTrip ==
    (ValidRangeCall /\ (pc = "range_tripped" \/ (pc = "idle" /\ result = EntropyTestFailed))) =>
        (prevCand # NoCand /\ lastCand = prevCand)

\* every content CryptGenRandom can write into a buffer of n bytes
AllBytes(n) == [1 .. n -> 0 .. ByteRange - 1]

\* the number of n-byte source outputs for which one draw of range returns v
OutputsReturning(v, lim, n) ==
    Cardinality({buf \in AllBytes(n) :
                    BytesToULong(buf) = v /\ Accepts(BytesToULong(buf), lim)})

\* C6: for every max > 1, each value v in [0, max) is returned by range(max)
\* for the same number, at least one, of the possible bytes_needed-byte source
\* outputs (so max-1 can be returned, and range(2) can return 0 and 1).
C6_EveryValueEquallyOften ==
    (ValidRangeCall /\ arg <= UniformMax /\ pc = "range_fetch") =>
        \A v \in 0 .. arg - 1 :
            /\ OutputsReturning(AsUnsignedLong(v), r, t) >= 1
            /\ OutputsReturning(AsUnsignedLong(v), r, t) = OutputsReturning(<<0, 0>>, r, t)

\* the last CryptoAPI call of the current call
LastCall == log[Len(log)]

\* the current call acquired a provider and its fetch succeeded
AcquiredAndGenerated == hProv # "none" /\ retVal = 1

\* C7: bytes(n) returns exactly n bytes, equal to the n bytes the source
\* delivered, for every n >= 0 in bounds, whenever acquisition and generation
\* succeed; bytes(0) returns an empty sequence without error.
C7_BytesReturnsDelivered ==
    (pc = "idle" /\ op = "bytes" /\ AcquiredAndGenerated) =>
        /\ result.kind = "bytes"
        /\ Len(result.data) = arg
        /\ LastCall[1] = "gen"
        /\ result.data = LastCall[4]

\* bytes(2) returned the two bytes 255, 0 that the fallback provider delivered
C7_Witness ==
    /\ pc = "idle"
    /\ op = "bytes"
    /\ arg = 2
    /\ hProv = "PROV_RSA_FULL"
    /\ result.kind = "bytes"
    /\ result.data = <<255, 0>>

\* both acquisition attempts of the current call failed
BothAcquiresFailed ==
    /\ Len(log) = 2
    /\ log[1] = <<"acquire", "PROV_RSA_AES", FALSE, <<>>>>
    /\ log[2] = <<"acquire", "PROV_RSA_FULL", FALSE, <<>>>>

\* C8: in long(), bytes(n) and range(max) the preferred provider is attempted
\* first, the general-purpose provider only after the preferred one failed;
\* the call fails with SourceUnavailable iff both attempts fail, and then no
\* fetch is issued.
C8_ProviderFallbackOrder ==
    /\ \A i \in 1 .. Len(log) :
          /\ (i = 1) => (log[i][1] = "acquire" /\ log[i][2] = "PROV_RSA_AES")
          /\ (log[i][1] = "acquire" /\ log[i][2] = "PROV_RSA_AES") => i = 1
          /\ (log[i][1] = "acquire" /\ log[i][2] = "PROV_RSA_FULL") =>
                (i = 2 /\ log[1] = <<"acquire", "PROV_RSA_AES", FALSE, <<>>>>)
    /\ (pc = "idle" /\ op # "none") => (result = SourceUnavailable <=> BothAcquiresFailed)
    /\ BothAcquiresFailed => pc = "idle"

\* bytes(1) failed with SourceUnavailable after both providers refused
C8_Witness ==
    /\ pc = "idle"
    /\ op = "bytes"
    /\ arg = 1
    /\ BothAcquiresFailed
    /\ result = SourceUnavailable

\* the current call has observed a failed fetch or a tripped self-test
ErrorObserved ==
    \/ pc = "range_tripped"
    \/ pc \in {"range_retval", "bytes_retval", "long_retval"} /\ retVal = 0

\* C9: once a call has observed a generation failure or a self-test trip, its
\* next step ends it with an error and no value, with no further fetch or
\* acquisition; a trip is never followed by another iteration of the loop.
C9_ErrorsAreTerminal ==
    [][ErrorObserved =>
          /\ pc' = "idle"
          /\ result'.kind = "error"
          /\ log' = log
          /\ acquired' = acquired]_vars

\* range failed with GenerationFailed on its second fetch, after a rejection
C9_Witness ==
    /\ RangeDone
    /\ ndraws = 1
    /\ Len(log) >= 3
    /\ LastCall[1] = "gen"
    /\ LastCall[3] = FALSE
    /\ log[Len(log) - 1][1] = "gen"
    /\ result = GenerationFailed

\* C10: the error range reports on a self-test trip differs from the one it
\* reports when a fetch fails and from the one it reports when no provider
\* can be acquired, so a caller can tell from the error which of them happened.
C10_ErrorsDistinguishable ==
    (RangeDone /\ result.kind = "error" /\ Len(log) > 0) =>
        /\ result = EntropyTestFailed <=> (LastCall[1] = "gen" /\ LastCall[3] = TRUE)
        /\ result = GenerationFailed <=> (LastCall[1] = "gen" /\ LastCall[3] = FALSE)
        /\ result = SourceUnavailable <=> BothAcquiresFailed

\* range reported the self-test error on the second candidate of a call that
\* holds the fallback provider
C10_Witness ==
    /\ RangeDone
    /\ ndraws = 2
    /\ hProv = "PROV_RSA_FULL"
    /\ result = EntropyTestFailed

\* the number of candidates a fetch of n bytes can deliver
CandidateSpace(n) == Pow2(8 * n)

\* a range call with a valid upper limit has computed its widths
WidthsComputed ==
    ValidRangeCall /\ pc \in {"range_fetch", "range_retval", "range_test", "range_store",
                              "range_compare", "range_release"}

C12_BitsRepresentMaxMinusOne ==
    WidthsComputed => Pow2(upperLimitBits) > arg - 1

\* C13: every call of long(), bytes(n) and range(max) runs to completion or
\* failure: provided the source does not deliver candidates >= max forever,
\* a call that has started eventually returns a value or an error.
C13_CallsTerminate == (pc # "idle") ~> (pc = "idle")

\* range(3) returned a value after the loop rejected a candidate
C13_Witness ==
    /\ RangeDone
    /\ arg = 3
    /\ ndraws >= 2
    /\ result = PyLong(<<0, 0>>)

\* the value ContinuousTestState must hold: the candidate delivered last to
\* any range call, or the initial value when none was delivered
ExpectedTestState == IF lastCand = NoCand THEN <<0, 0>> ELSE lastCand

\* C14: after any sequence of long(), bytes() and range() calls, the self-test
\* state equals the most recent candidate drawn by any range call (accepted,
\* rejected or tripping), or its initial value if none was drawn; calls that
\* draw no candidate leave it unchanged and it is never reset.
C14_TestStateIsLastCandidate ==
    /\ pc = "idle" => iContinousRndTest = ExpectedTestState
    /\ op \in {"long", "bytes"} => iContinousRndTest = ExpectedTestState

\* range(200) stored the rejected candidate 255 and then failed on its fetch
C14_Witness ==
    /\ RangeDone
    /\ arg = 200
    /\ result = GenerationFailed
    /\ ndraws = 1
    /\ iContinousRndTest = <<0, 255>>

\* C15: when bits_needed < 16, range never fails with EntropyTestFailed, even
\* if the source repeats a candidate or delivers the stored value; the stored
\* value is still updated with each candidate.
C15_SmallWidthNeverTrips ==
    (op = "range" /\ upperLimitBits < 16) =>
        /\ pc # "range_tripped"
        /\ result # EntropyTestFailed
        /\ pc \in {"range_compare", "range_release"} => iContinousRndTest = lastCand
        /\ (pc = "idle" /\ result.kind = "int") => iContinousRndTest = lastCand

\* range(257) returned 255, the candidate the previous range call drew last
C15_Witness ==
    /\ RangeDone
    /\ arg = 257
    /\ upperLimitBits = 8
    /\ prevCand = <<0, 255>>
    /\ lastCand = <<0, 255>>
    /\ result = PyLong(<<0, 255>>)

\* the positions of the log at which a provider was acquired
AcquiredAt == {i \in 1 .. Len(log) : log[i][1] = "acquire" /\ log[i][3] = TRUE}

\* C16: within one range call at most one handle is acquired, acquisition
\* comes before the first fetch, no acquisition is attempted inside the
\* rejection loop, and every fetch of the call uses that same handle.
C16_OneHandlePerRangeCall ==
    op = "range" =>
        /\ Cardinality(AcquiredAt) <= 1
        /\ \A i \in 1 .. Len(log) : \A j \in 1 .. Len(log) :
              (log[i][1] = "gen" /\ log[j][1] = "acquire") => j < i
        /\ \A i \in 1 .. Len(log) :
              log[i][1] = "gen" =>
                 \E a \in AcquiredAt : a < i /\ log[i][2] = log[a][2]

\* range(200) fetched twice through the fallback provider and released it
C16_Witness ==
    /\ RangeDone
    /\ arg = 200
    /\ Len(log) = 5
    /\ log[2] = <<"acquire", "PROV_RSA_FULL", TRUE, <<>>>>
    /\ log[3] = <<"gen", "PROV_RSA_FULL", TRUE, <<255>>>>
    /\ log[4] = <<"gen", "PROV_RSA_FULL", TRUE, <<0>>>>
    /\ log[5][1] = "release"

\* C17: with range calls of several threads sharing the self-test state,
\* detections can only be lost, never gained: at width >= 16 bits
\* EntropyTestFailed is raised only if the source delivered the same value
\* twice in a row.  winrandom_range never releases the interpreter lock (there
\* is no Py_BEGIN_ALLOW_THREADS between its entry and its returns), so the
\* calls of different threads run one whole call after another, in any order:
\* the sequences of calls of Spec.
C17_TripOnlyOnConsecutiveRepeat ==
    (op = "range" /\ upperLimitBits >= 16 /\ result = EntropyTestFailed) =>
        (prevCand # NoCand /\ lastCand = prevCand)

\* the current step ends a call that was refused before any acquisition
RefusedEarly ==
    /\ pc \in {"range_check", "bytes_malloc"}
    /\ pc' = "idle"

\* C18: a range(max) call rejected for an invalid argument and a bytes(n) call
\* that cannot obtain its buffer attempt no acquisition, issue no fetch and
\* leave the self-test state and the acquire / release counts unchanged.
C18_ValidationBeforeAcquisition ==
    [][(pc' \in {"range_check", "bytes_malloc"} \/ RefusedEarly) =>
          /\ log' = <<>>
          /\ hProv' = "none"
          /\ UNCHANGED <<iContinousRndTest, acquired, released>>]_vars

\* bytes(2) failed for lack of memory after an earlier call had acquired a
\* provider and range had stored a candidate
C18_Witness ==
    /\ pc = "idle"
    /\ op = "bytes"
    /\ result = MemoryIssue
    /\ acquired = 1
    /\ iContinousRndTest = <<0, 255>>
    /\ log = <<>>

====
